---- MODULE Spec2Model ----
(***************************************************************************)
(* Model of ratatui-intro's example programs (example_2.rs, example_3.rs). *)
(* Both files have the same main and run_app; they differ only in ui.      *)
(*                                                                         *)
(* main:    enable_raw_mode, execute!(EnterAlternateScreen,                *)
(*          EnableMouseCapture), Terminal::new, run_app, disable_raw_mode, *)
(*          execute!(LeaveAlternateScreen, DisableMouseCapture), clear,    *)
(*          show_cursor, print of run_app's error, return Ok.              *)
(* run_app: loop { draw; if poll(250ms) { read; return on Char('q') } }.   *)
(*                                                                         *)
(* Every I/O call either succeeds or fails with an error chosen by the     *)
(* environment.  The counters draws/polls/reads and the last* / fail*      *)
(* variables are history variables: they record what the calls did and     *)
(* never influence the control flow.                                       *)
(***************************************************************************)
EXTENDS Integers, Sequences, FiniteSets

\* History counters are exact up to MaxIter calls; past it they stop
\* counting and overflow is raised (the loop itself goes on).
MaxIter == 3

\* The I/O errors the environment may produce.
Errors == {"e1", "e2"}

\* crossterm events as run_app distinguishes them: Event::Key(key) with
\* key.code, or any other Event variant.  NoEvent / ErrEvent are the history
\* markers "nothing read yet" and "the read failed".
KeyEvent(code) == [kind |-> "Key", code |-> code]
OtherEvent(kind) == [kind |-> kind, code |-> "none"]
Events ==
  {KeyEvent("Char(q)"), KeyEvent("Char(x)"), KeyEvent("Enter"),
   OtherEvent("Mouse"), OtherEvent("Resize")}
NoEvent == OtherEvent("none")
ErrEvent == OtherEvent("err")

\* io::Result<()> of run_app.
NoRes == [tag |-> "none", err |-> "none"]
Ok == [tag |-> "Ok", err |-> "none"]
Err(e) == [tag |-> "Err", err |-> e]

\* Result<(), Box<dyn Error>> of main: `?` boxes the io::Error.
Box(e) == <<"Box", e>>
NoRet == [tag |-> "none", err |-> Box("none")]
RetOk == [tag |-> "Ok", err |-> Box("none")]
RetErr(e) == [tag |-> "Err", err |-> Box(e)]

\* "{err:?}" of an io::Error, as one line of standard output.
Debug(e) == <<"Debug", e>>

RunPcs == {"draw", "poll", "read"}

VARIABLES
  pc,            \* main's position (run_app's positions included)
  rawMode,       \* terminal: raw mode enabled
  altScreen,     \* terminal: alternate screen entered
  mouseCapture,  \* terminal: mouse capture enabled
  res,           \* main's `res`: run_app's result
  ret,           \* main's return value
  stdout,        \* lines printed to standard output
  draws,         \* history: calls of terminal.draw
  polls,         \* history: calls of event::poll
  reads,         \* history: calls of event::read
  overflow,      \* history: more than MaxIter calls happened
  lastPoll,      \* history: outcome of the last poll
  lastEvent,     \* history: outcome of the last read
  qPoll,         \* history: number of the poll that delivered Char('q')
  failCall,      \* history: the run_app call that failed
  failErr,       \* history: the error that call failed with
  mainFail       \* history: the error a setup or teardown call of main failed with

term == <<rawMode, altScreen, mouseCapture>>
hist == <<draws, polls, reads, overflow, lastPoll, lastEvent, qPoll, failCall, failErr>>
vars == <<pc, rawMode, altScreen, mouseCapture, res, ret, stdout,
          draws, polls, reads, overflow, lastPoll, lastEvent, qPoll, failCall, failErr,
          mainFail>>

Inc(n) == IF n < MaxIter THEN n + 1 ELSE n

Init ==
  /\ pc = "enable_raw"
  /\ rawMode = FALSE /\ altScreen = FALSE /\ mouseCapture = FALSE
  /\ res = NoRes /\ ret = NoRet /\ stdout = <<>>
  /\ draws = 0 /\ polls = 0 /\ reads = 0 /\ overflow = FALSE
  /\ lastPoll = "none" /\ lastEvent = NoEvent /\ qPoll = 0
  /\ failCall = "none" /\ failErr = "none" /\ mainFail = "none"

\* `?` in main: return Err(Box::from(e)) at once.
MainPropagate(e) ==
  /\ ret' = RetErr(e)
  /\ pc' = "done"

\* `?` in run_app: return Err(e) to main, which goes on at line 22.
RunPropagate(e) ==
  /\ res' = Err(e)
  /\ pc' = "disable_raw"

\* An execute! of two commands that fails may have written none, one or both.
PartialAlt(to) == {altScreen, to}
PartialMouse(to) == {mouseCapture, to}

\* line 12: enable_raw_mode()?
EnableRawMode ==
  /\ pc = "enable_raw"
  /\ \/ /\ rawMode' = TRUE
        /\ pc' = "enter_alt"
        /\ UNCHANGED <<ret, mainFail>>
     \/ \E e \in Errors :
        /\ MainPropagate(e)
        /\ mainFail' = e
        /\ UNCHANGED rawMode
  /\ UNCHANGED <<altScreen, mouseCapture, res, stdout, hist>>

\* line 14: execute!(stdout, EnterAlternateScreen, EnableMouseCapture)?
ExecuteEnter ==
  /\ pc = "enter_alt"
  /\ \/ /\ altScreen' = TRUE
        /\ mouseCapture' = TRUE
        /\ pc' = "new_terminal"
        /\ UNCHANGED <<ret, mainFail>>
     \/ \E e \in Errors :
        /\ MainPropagate(e)
        /\ mainFail' = e
        /\ altScreen' \in PartialAlt(TRUE)
        /\ mouseCapture' \in PartialMouse(TRUE)
        /\ (mouseCapture' # mouseCapture => altScreen' = TRUE)
  /\ UNCHANGED <<rawMode, res, stdout, hist>>

\* line 16: Terminal::new(backend)?
TerminalNew ==
  /\ pc = "new_terminal"
  /\ \/ /\ pc' = "draw"
        /\ UNCHANGED <<ret, mainFail>>
     \/ \E e \in Errors :
        /\ MainPropagate(e)
        /\ mainFail' = e
  /\ UNCHANGED <<term, res, stdout, hist>>

\* line 40: terminal.draw(ui)?
Draw ==
  /\ pc = "draw"
  /\ draws' = Inc(draws)
  /\ overflow' = (overflow \/ draws = MaxIter)
  /\ \/ /\ pc' = "poll"
        /\ UNCHANGED <<res, failCall, failErr>>
     \/ \E e \in Errors :
        /\ RunPropagate(e)
        /\ failCall' = "draw"
        /\ failErr' = e
  /\ UNCHANGED <<term, ret, stdout, mainFail, polls, reads, lastPoll, lastEvent, qPoll>>

\* Poll with the error swallowed: a failed poll is treated as a timeout and
\* the loop goes on.
PollRetry ==
  /\ pc = "poll"
  /\ polls' = Inc(polls)
  /\ overflow' = (overflow \/ polls = MaxIter)
  /\ \/ /\ lastPoll' = "true"
        /\ pc' = "read"
        /\ UNCHANGED <<res, failCall, failErr>>
     \/ /\ lastPoll' = "false"
        /\ pc' = "draw"
        /\ UNCHANGED <<res, failCall, failErr>>
     \/ \E e \in Errors :
        /\ lastPoll' = "err"
        /\ pc' = "draw"
        /\ failCall' = "poll"
        /\ failErr' = e
        /\ UNCHANGED res
  /\ UNCHANGED <<term, ret, stdout, mainFail, draws, reads, lastEvent, qPoll>>

\* Poll whose result is not tested: event::read is called after a timeout too.
PollAlwaysRead ==
  /\ pc = "poll"
  /\ polls' = Inc(polls)
  /\ overflow' = (overflow \/ polls = MaxIter)
  /\ \/ /\ lastPoll' = "true"
        /\ pc' = "read"
        /\ UNCHANGED <<res, failCall, failErr>>
     \/ /\ lastPoll' = "false"
        /\ pc' = "read"
        /\ UNCHANGED <<res, failCall, failErr>>
     \/ \E e \in Errors :
        /\ lastPoll' = "err"
        /\ RunPropagate(e)
        /\ failCall' = "poll"
        /\ failErr' = e
  /\ UNCHANGED <<term, ret, stdout, mainFail, draws, reads, lastEvent, qPoll>>

\* line 42: if event::poll(Duration::from_millis(250))? { ... }
Poll ==
  /\ pc = "poll"
  /\ polls' = Inc(polls)
  /\ overflow' = (overflow \/ polls = MaxIter)
  /\ \/ /\ lastPoll' = "true"
        /\ pc' = "read"
        /\ UNCHANGED <<res, failCall, failErr>>
     \/ /\ lastPoll' = "false"
        /\ pc' = "draw"
        /\ UNCHANGED <<res, failCall, failErr>>
     \/ \E e \in Errors :
        /\ lastPoll' = "err"
        /\ RunPropagate(e)
        /\ failCall' = "poll"
        /\ failErr' = e
  /\ UNCHANGED <<term, ret, stdout, mainFail, draws, reads, lastEvent, qPoll>>

\* The match written with the wrong character: 'Q' instead of 'q'.
IsQuitUpperCase(ev) == ev.kind = "Key" /\ ev.code = "Char(Q)"

\* The match without its inner test: any key event quits.
IsQuitAnyKey(ev) == ev.kind = "Key"

\* The match without its outer test: any event quits.
IsQuitAnyEvent(ev) == TRUE

\* lines 43-44: if let Event::Key(key) = ev { if let KeyCode::Char('q') = key.code
IsQuit(ev) == ev.kind = "Key" /\ ev.code = "Char(q)"

\* lines 43-47: event::read()? and the match on its event
Read ==
  /\ pc = "read"
  /\ reads' = Inc(reads)
  /\ overflow' = (overflow \/ reads = MaxIter)
  /\ \/ \E ev \in Events :
        /\ lastEvent' = ev
        /\ qPoll' = IF ev = KeyEvent("Char(q)") /\ qPoll = 0 THEN polls ELSE qPoll
        /\ IF IsQuit(ev)
             THEN /\ res' = Ok
                  /\ pc' = "disable_raw"
             ELSE /\ pc' = "draw"
                  /\ UNCHANGED res
        /\ UNCHANGED <<failCall, failErr>>
     \/ \E e \in Errors :
        /\ lastEvent' = ErrEvent
        /\ RunPropagate(e)
        /\ failCall' = "read"
        /\ failErr' = e
        /\ UNCHANGED qPoll
  /\ UNCHANGED <<term, ret, stdout, mainFail, draws, polls, lastPoll>>

\* line 22: disable_raw_mode()?
DisableRawMode ==
  /\ pc = "disable_raw"
  /\ \/ /\ rawMode' = FALSE
        /\ pc' = "leave_alt"
        /\ UNCHANGED <<ret, mainFail>>
     \/ \E e \in Errors :
        /\ MainPropagate(e)
        /\ mainFail' = e
        /\ UNCHANGED rawMode
  /\ UNCHANGED <<altScreen, mouseCapture, res, stdout, hist>>

\* lines 23-27: execute!(terminal.backend_mut(), LeaveAlternateScreen, DisableMouseCapture)?
ExecuteLeave ==
  /\ pc = "leave_alt"
  /\ \/ /\ altScreen' = FALSE
        /\ mouseCapture' = FALSE
        /\ pc' = "clear"
        /\ UNCHANGED <<ret, mainFail>>
     \/ \E e \in Errors :
        /\ MainPropagate(e)
        /\ mainFail' = e
        /\ altScreen' \in PartialAlt(FALSE)
        /\ mouseCapture' \in PartialMouse(FALSE)
        /\ (mouseCapture' # mouseCapture => altScreen' = FALSE)
  /\ UNCHANGED <<rawMode, res, stdout, hist>>

\* line 28: terminal.clear()?
Clear ==
  /\ pc = "clear"
  /\ \/ /\ pc' = "show_cursor"
        /\ UNCHANGED <<ret, mainFail>>
     \/ \E e \in Errors :
        /\ MainPropagate(e)
        /\ mainFail' = e
  /\ UNCHANGED <<term, res, stdout, hist>>

\* line 29: terminal.show_cursor()?
ShowCursor ==
  /\ pc = "show_cursor"
  /\ \/ /\ pc' = "print"
        /\ UNCHANGED <<ret, mainFail>>
     \/ \E e \in Errors :
        /\ MainPropagate(e)
        /\ mainFail' = e
  /\ UNCHANGED <<term, res, stdout, hist>>

\* The end of main written as `res?; Ok(())`: run_app's error is returned
\* instead of printed.
PrintAndReturnPropagate ==
  /\ pc = "print"
  /\ ret' = IF res.tag = "Err" THEN RetErr(res.err) ELSE RetOk
  /\ pc' = "done"
  /\ UNCHANGED <<term, res, stdout, hist, mainFail>>

\* lines 31-35: if let Err(err) = res { println!("{err:?}") }; Ok(())
PrintAndReturn ==
  /\ pc = "print"
  /\ stdout' = IF res.tag = "Err" THEN Append(stdout, Debug(res.err)) ELSE stdout
  /\ ret' = RetOk
  /\ pc' = "done"
  /\ UNCHANGED <<term, res, hist, mainFail>>

Next ==
  \/ EnableRawMode
  \/ ExecuteEnter
  \/ TerminalNew
  \/ Draw
  \/ Poll
  \/ Read
  \/ DisableRawMode
  \/ ExecuteLeave
  \/ Clear
  \/ ShowCursor
  \/ PrintAndReturn

Spec == Init /\ [][Next]_vars

\* The program is one sequential thread: whenever a step is possible it is
\* eventually taken (poll returns within its timeout, read is only called
\* with an event available).
LiveSpec == Spec /\ WF_vars(Next)

(***************************************************************************)
(* Properties                                                              *)
(***************************************************************************)

Restored == ~rawMode /\ ~altScreen /\ ~mouseCapture

\* C1: on every exit path of main the terminal is back in its original
\* state when the program ends: raw mode is disabled and the alternate
\* screen is left.
C1_RestoredOnEveryExit ==
  pc = "done" => (~rawMode /\ ~altScreen)

\* C2: if the first Char('q') key event is delivered on the k-th poll and
\* nothing failed before, run_app has then drawn exactly k times and polled
\* exactly k times, has returned Ok(()), and draws and polls no more.
C2_QuitOnKthPoll ==
  /\ []((qPoll # 0 /\ ~overflow) =>
          (res = Ok /\ pc \notin RunPcs /\ draws = qPoll /\ polls = qPoll))
  /\ [][res = Ok => (draws' = draws /\ polls' = polls /\ reads' = reads)]_vars

C2_Witness ==
  /\ ~overflow /\ qPoll = 3 /\ res = Ok
  /\ draws = 3 /\ polls = 3 /\ pc = "done"

\* C3: the first failing draw, poll or read ends run_app at once with that
\* same error: no draw, poll or read follows it.  A failing k-th poll leaves
\* exactly k draws, a failing k-th draw exactly k-1 polls.
C3_FirstFailureEndsLoop ==
  /\ [](failCall # "none" => (res = Err(failErr) /\ pc \notin RunPcs))
  /\ [](res.tag = "Err" => (failCall # "none" /\ res.err = failErr))
  /\ []((failCall = "poll" /\ ~overflow) => draws = polls)
  /\ []((failCall = "draw" /\ ~overflow) => polls = draws - 1)
  /\ []((failCall = "read" /\ ~overflow) => draws = polls)
  /\ [][failCall # "none" => (draws' = draws /\ polls' = polls /\ reads' = reads)]_vars

C3_Witness ==
  /\ ~overflow /\ failCall = "poll" /\ polls = 2 /\ draws = 2
  /\ res = Err("e1") /\ pc = "done"

\* C4: a poll that times out, a read of a non-key event, or a read of a key
\* event whose code is not Char('q') leaves the loop running with a draw as
\* the next operation; every iteration draws exactly once before its poll.
C4_OtherInputKeepsRunning ==
  /\ [][(pc = "poll" /\ lastPoll' = "false") => (pc' = "draw" /\ res' = NoRes)]_vars
  /\ [][(pc = "read" /\ lastEvent' \in Events
          /\ (lastEvent'.kind # "Key" \/ lastEvent'.code # "Char(q)"))
        => (pc' = "draw" /\ res' = NoRes)]_vars
  /\ []((pc = "poll" /\ ~overflow) => draws = polls + 1)
  /\ []((pc \in {"draw", "read"} /\ ~overflow) => draws = polls)

C4_Witness ==
  /\ ~overflow /\ pc = "poll" /\ draws = 3 /\ polls = 2 /\ reads = 1
  /\ lastPoll = "false" /\ lastEvent = KeyEvent("Char(x)") /\ res = NoRes

\* C5 as stated: main always returns Ok(()) (no failure exit), every error
\* of setup, the draw loop or teardown is printed to standard output, and a
\* draw-loop error is printed only with the terminal restored.
C5_Original ==
  pc = "done" =>
    /\ ret = RetOk
    /\ (res.tag = "Err" => stdout = <<Debug(res.err)>>)
    /\ (mainFail # "none" => stdout = <<Debug(mainFail)>>)
    /\ (stdout # <<>> => Restored)

\* C5 as amended: main returns Ok(()) on 'q'-triggered termination and on a
\* draw-loop error when every teardown step succeeds, and the draw-loop
\* error is then printed to standard output, after the terminal has been
\* restored.  An error of a setup or teardown step is not printed by main:
\* main returns it as Err, and a draw-loop error pending then is dropped.
C5_PrintedOrReturned ==
  /\ pc # "done" => (ret = NoRet /\ stdout = <<>>)
  /\ pc = "done" =>
       /\ mainFail = "none" =>
            /\ ret = RetOk
            /\ stdout = (IF res.tag = "Err" THEN <<Debug(res.err)>> ELSE <<>>)
            /\ Restored
       /\ mainFail # "none" =>
            /\ ret = RetErr(mainFail)
            /\ stdout = <<>>

C5_Witness ==
  /\ pc = "done" /\ ret = RetOk /\ res = Err("e2")
  /\ stdout = <<Debug("e2")>> /\ Restored

\* C9: event::read is called only in an iteration whose poll returned true,
\* never after a timed-out or failed poll.
C9_ReadOnlyAfterPollTrue ==
  /\ [](pc = "read" => lastPoll = "true")
  /\ [][(reads' # reads \/ lastEvent' # lastEvent) => (pc = "read" /\ lastPoll = "true")]_vars
  /\ [](~overflow => reads <= polls)

C9_Witness ==
  /\ ~overflow /\ pc = "read" /\ lastPoll = "true" /\ polls = 2 /\ reads = 0

\* C10: run_app returns Ok(()) only if the last event read was a key event
\* with code Char('q'), and Err only if a draw, poll or read failed; once it
\* has returned it draws, polls and reads no more; and if it never returns
\* it draws infinitely often.
C10_TerminatedOnlyByQuitOrError ==
  /\ [](res = Ok => (lastEvent = KeyEvent("Char(q)") /\ failCall = "none"))
  /\ [](res.tag = "Err" => failCall \in {"draw", "poll", "read"})
  /\ [](res # NoRes <=> pc \in {"disable_raw", "leave_alt", "clear", "show_cursor", "print", "done"} /\ draws > 0)
  /\ [][res # NoRes => (res' = res /\ draws' = draws /\ polls' = polls /\ reads' = reads)]_vars
  /\ (<>[](pc \in RunPcs) => ([]<>(pc = "draw") /\ []<>(pc = "poll")))

C10_Witness ==
  /\ ~overflow /\ res = Ok /\ lastEvent = KeyEvent("Char(q)")
  /\ draws = 2 /\ polls = 2 /\ reads = 1 /\ pc = "done"

====
